---------------------------- MODULE Spec2Model ----------------------------
(***************************************************************************)
(* Maxus T90 EV vehicle module (OvmsVehicleMaxt90): the native CAN1 frame  *)
(* decoder IncomingFrameCan1 and the OBD-II poll reply decoder             *)
(* IncomingPollReply, with the state they keep between calls.              *)
(*                                                                         *)
(* Numbers.  The code computes in IEEE single precision.  A float is       *)
(* modelled as an exact non-negative rational [n, d] in lowest terms.      *)
(* Every value the code divides is an unsigned integer below 2^24, which   *)
(* a float holds exactly, the division is correctly rounded and so         *)
(* monotone, and the limits 10, 40, 50, 125, 150, 280, 1000000 are floats, *)
(* so each comparison of a quotient with a limit gives the same answer on  *)
(* the rational as on the float.  0.1f is not 1/10 (it is about 1.5e-9     *)
(* above it), but the only values compared with it are 0 and raw/164 for   *)
(* an integer raw, and no such value lies between 1/10 and 0.1f.           *)
(* Rounding of products (power, usable capacity) is not modelled.          *)
(*                                                                         *)
(* Metrics.  A metric of the metric store is [def, val]: whether it has    *)
(* been set, and its value.  The store belongs to the host; at             *)
(* construction of the module every standard metric is taken to be unset.  *)
(***************************************************************************)
EXTENDS Integers, Sequences, FiniteSets, TLC

VARIABLES
  StdMetrics,          \* the standard metrics this module writes
  m_hvac_temp_c,       \* custom metric xmt.v.hvac.temp
  m_pack_capacity_kwh, \* custom metric xmt.b.capacity
  m_ac_voltage,        \* cached AC line voltage, Volts
  m_ac_current,        \* cached AC line current, Amps
  last_state,          \* static last_state of case 0x281
  m_poll_state,        \* poller state
  ev,                  \* the frame or reply handled last
  written,             \* metrics written (SetValue) by the last handler, in order
  pollset,             \* PollSetState calls of the last handler, in order
  accepted,            \* identifiers whose value was accepted at least once
  task,                \* position and locals of a handler delivered step by step
  probe                \* a frame and a reply being handled in both orders

vars == <<StdMetrics, m_hvac_temp_c, m_pack_capacity_kwh, m_ac_voltage,
          m_ac_current, last_state, m_poll_state, ev, written, pollset,
          accepted, task, probe>>

\* The state the decoders keep or publish (everything but the observers).
core == <<StdMetrics, m_hvac_temp_c, m_pack_capacity_kwh, m_ac_voltage,
          m_ac_current, last_state, m_poll_state>>

---------------------------------------------------------------------------
\* Input bounds.

\* How many raw values on each side of a range limit the inputs enumerate.
Margin == 1

\* Longest VIN reply enumerated.
VinMaxLen == 2

---------------------------------------------------------------------------
\* Rationals standing for the code's floats.

RECURSIVE Gcd(_, _)
Gcd(a, b) == IF b = 0 THEN a ELSE Gcd(b, a % b)

Rat(n, d) == LET g == Gcd(n, d) IN [n |-> n \div g, d |-> d \div g]

Zero == Rat(0, 1)

RatMul(a, b) == Rat(a.n * b.n, a.d * b.d)

RatDiv(a, b) == Rat(a.n * b.d, a.d * b.n)

RatLeq(a, b) == a.n * b.d <= b.n * a.d

RatLt(a, b) == a.n * b.d < b.n * a.d

\* x & y on naturals.
RECURSIVE BitAnd(_, _)
BitAnd(x, y) ==
  IF x = 0 \/ y = 0 THEN 0
  ELSE (x % 2) * (y % 2) + 2 * BitAnd(x \div 2, y \div 2)

---------------------------------------------------------------------------
\* Byte-order helpers.  A byte array is a sequence; C's p[i] is p[i + 1].

u16be(p) == ((p[1] * 256) + p[2]) % 65536

---------------------------------------------------------------------------
\* The metric store.

Unset(v) == [def |-> FALSE, val |-> v]

SetValue(v) == [def |-> TRUE, val |-> v]

\* AsFloat(), AsBool(): the value, or the default (0, false) while unset.
AsFloat(m) == IF m.def THEN m.val ELSE Zero

AsBool(m) == IF m.def THEN m.val ELSE FALSE

---------------------------------------------------------------------------
\* Program constants.

m_can1 == 1

ID_HANDBRAKE == 614    \* 0x266

ID_LOCK == 641         \* 0x281

ID_AC_VOLTAGE == 866   \* 0x362

ID_AC_CURRENT == 883   \* 0x373

ID_GEAR == 1296        \* 0x510

ID_ODOMETER == 1344    \* 0x540

LOCKED_BYTE == 169     \* 0xA9

UNLOCKED_BYTE == 168   \* 0xA8

PID_VIN == 61840       \* 0xF190

PID_SOC == 57346       \* 0xE002

PID_SOH == 57347       \* 0xE003

PID_READY == 57348     \* 0xE004

PID_PLUG == 57353      \* 0xE009

PID_HVAC == 57360      \* 0xE010

PID_AMBIENT == 57381   \* 0xE025

\* 88.5f, the nominal pack capacity in kWh.
NominalCapacity == Rat(177, 2)

---------------------------------------------------------------------------
\* Construction.

\* A handler that is not running.
Idle == [pc |-> "idle", x |-> Zero, partner |-> Zero, p_kw |-> Zero]

\* The standard metrics as a module finds them at its construction (they are
\* created with the module and destroyed with it), after the constructor
\* has seeded the usable capacity.
FreshMetrics ==
       [ms_v_env_handbrake   |-> Unset(FALSE),
        ms_v_env_locked      |-> Unset(FALSE),
        ms_v_charge_voltage  |-> Unset(Zero),
        ms_v_charge_current  |-> Unset(Zero),
        ms_v_charge_power    |-> Unset(Zero),
        ms_v_pos_odometer    |-> Unset(Zero),
        ms_v_vin             |-> Unset(<<>>),
        ms_v_bat_soc         |-> Unset(Zero),
        ms_v_bat_soh         |-> Unset(Zero),
        ms_v_bat_capacity    |-> SetValue(NominalCapacity),
        ms_v_env_on          |-> Unset(FALSE),
        ms_v_charge_pilot    |-> Unset(FALSE),
        ms_v_env_temp        |-> Unset(Zero)]

Init ==
  /\ StdMetrics = FreshMetrics
  /\ m_hvac_temp_c = SetValue(Zero)
  /\ m_pack_capacity_kwh = SetValue(NominalCapacity)
  /\ m_ac_voltage = Zero
  /\ m_ac_current = Zero
  /\ last_state = 0
  /\ m_poll_state = 0
  /\ ev = [kind |-> "none", origin |-> 0, id |-> 0, len |-> 0, data |-> <<>>]
  /\ written = <<>>
  /\ pollset = <<>>
  /\ accepted = {}
  /\ task = [volt |-> Idle, curr |-> Idle]
  /\ probe = [stage |-> "none", f |-> <<>>, r |-> <<>>, base |-> <<>>,
              first |-> <<>>]

---------------------------------------------------------------------------
\* Live CAN frame handler.  A frame is [origin, MsgID, DLC, data]: data is the
\* 8-byte buffer data.u8, of which only the first DLC bytes were received.

\* What a handler that writes nothing leaves behind.
NoWrites == written' = <<>> /\ UNCHANGED core

\* case 0x266: parking brake, bit 0 of byte 2.
Case0x266(p_frame) ==
  LET d == p_frame.data IN
  IF p_frame.DLC < 3
  THEN NoWrites
  ELSE LET handbrake_on == BitAnd(d[3], 1) # 0 IN
       /\ StdMetrics' =
            [StdMetrics EXCEPT !.ms_v_env_handbrake = SetValue(handbrake_on)]
       /\ written' = <<"ms_v_env_handbrake">>
       /\ UNCHANGED <<m_hvac_temp_c, m_pack_capacity_kwh, m_ac_voltage,
                      m_ac_current, last_state, m_poll_state>>

\* The lock byte is published when it changed and is one of the two known values.
LockChanged_noDebounce(state) == state = LOCKED_BYTE \/ state = UNLOCKED_BYTE

LockChanged(state) ==
  state # last_state /\ (state = LOCKED_BYTE \/ state = UNLOCKED_BYTE)

\* case 0x281: lock state, byte 1, de-bounced against the static last_state.
Case0x281(p_frame) ==
  LET d == p_frame.data
      state == d[2]
  IN IF LockChanged(state)
     THEN LET locked == (state = LOCKED_BYTE) IN
          /\ StdMetrics' =
               [StdMetrics EXCEPT !.ms_v_env_locked = SetValue(locked)]
          /\ last_state' = state
          /\ written' = <<"ms_v_env_locked">>
          /\ UNCHANGED <<m_hvac_temp_c, m_pack_capacity_kwh, m_ac_voltage,
                         m_ac_current, m_poll_state>>
     ELSE NoWrites

\* Any voltage taken as valid.
VoltageValid_any(v) == TRUE

\* Sanity range of the AC line voltage: v >= 150.0f && v <= 280.0f.
VoltageValid_exclusive(v) == RatLt(Rat(150, 1), v) /\ RatLt(v, Rat(280, 1))

VoltageValid(v) == RatLeq(Rat(150, 1), v) /\ RatLeq(v, Rat(280, 1))

\* "We already know an AC current": m_ac_current > 0.1f.
CurrentKnown_never == FALSE

CurrentKnown == RatLt(Rat(1, 10), m_ac_current)

\* "We already know an AC voltage": m_ac_voltage > 10.0f.
VoltageKnown_always == TRUE

\* The voltage taken as known while the poll state is ON.
VoltageKnown_whenOn == m_poll_state = 1

VoltageKnown == RatLt(Rat(10, 1), m_ac_voltage)

\* The power without the current.
ChargePower_noPartner(v, i) == RatDiv(v, Rat(1000, 1))

\* p_kw = (m_ac_voltage * m_ac_current) / 1000.0f
ChargePower(v, i) == RatDiv(RatMul(v, i), Rat(1000, 1))

\* case 0x362: AC line voltage, bytes 0-1 big-endian, V * 100.
Case0x362(p_frame) ==
  LET d == p_frame.data
      raw == u16be(d)
      v == RatDiv(Rat(raw, 1), Rat(100, 1))
  IN IF VoltageValid(v)
     THEN /\ m_ac_voltage' = v
          /\ accepted' = accepted \cup {ID_AC_VOLTAGE}
          /\ IF CurrentKnown
             THEN /\ StdMetrics' =
                       [StdMetrics EXCEPT
                          !.ms_v_charge_voltage = SetValue(v),
                          !.ms_v_charge_power =
                             SetValue(ChargePower(v, m_ac_current))]
                  /\ written' = <<"ms_v_charge_voltage", "ms_v_charge_power">>
             ELSE /\ StdMetrics' =
                       [StdMetrics EXCEPT !.ms_v_charge_voltage = SetValue(v)]
                  /\ written' = <<"ms_v_charge_voltage">>
          /\ UNCHANGED <<m_hvac_temp_c, m_pack_capacity_kwh, m_ac_current,
                         last_state, m_poll_state>>
     ELSE NoWrites /\ UNCHANGED accepted

\* Sanity range of the AC line current: i >= 0.1f && i <= 40.0f.
CurrentValid_exclusive(i) == RatLt(Rat(1, 10), i) /\ RatLt(i, Rat(40, 1))

CurrentValid(i) == RatLeq(Rat(1, 10), i) /\ RatLeq(i, Rat(40, 1))

\* case 0x373: AC line current, bytes 0-1 big-endian, raw / 164.
Case0x373(p_frame) ==
  LET d == p_frame.data
      raw == u16be(d)
      i == RatDiv(Rat(raw, 1), Rat(164, 1))
  IN IF CurrentValid(i)
     THEN /\ m_ac_current' = i
          /\ accepted' = accepted \cup {ID_AC_CURRENT}
          /\ IF VoltageKnown
             THEN /\ StdMetrics' =
                       [StdMetrics EXCEPT
                          !.ms_v_charge_current = SetValue(i),
                          !.ms_v_charge_power =
                             SetValue(ChargePower(m_ac_voltage, i))]
                  /\ written' = <<"ms_v_charge_current", "ms_v_charge_power">>
             ELSE /\ StdMetrics' =
                       [StdMetrics EXCEPT !.ms_v_charge_current = SetValue(i)]
                  /\ written' = <<"ms_v_charge_current">>
          /\ UNCHANGED <<m_hvac_temp_c, m_pack_capacity_kwh, m_ac_voltage,
                         last_state, m_poll_state>>
     ELSE NoWrites /\ UNCHANGED accepted

\* case 0x510: gear candidate, byte 3: a frame with DLC < 4 is skipped, any
\* other is logged only, so neither writes anything.
Case0x510(p_frame) == NoWrites

\* The bounds with the upper end included.
OdometerValid_inclusive(km) ==
  RatLt(Zero, km) /\ RatLeq(km, Rat(1000000, 1))

\* Odometer sanity bounds: km > 0 && km < 1000000.0f.
OdometerValid(km) == RatLt(Zero, km) /\ RatLt(km, Rat(1000000, 1))

\* The same three bytes read most significant first.
OdometerRaw_bigEndian(d) == d[5] * 65536 + d[6] * 256 + d[7]

\* (uint32_t)d[4] | (uint32_t)d[5] << 8 | (uint32_t)d[6] << 16: the three
\* bytes occupy disjoint bits, so the bitwise or is their sum.  (Sequences
\* count from 1: d[5] is the code's d[4].)
OdometerRaw(d) == d[5] + d[6] * 256 + d[7] * 65536

\* case 0x540: odometer, bytes 4-6 little-endian, 0.1 km.  raw < 2^24 is
\* exact in a float and floats below 2^20 are spaced by at most 1/16 < 1/10,
\* so raw / 10.0f orders and separates values as the exact quotient does.
Case0x540(p_frame) ==
  LET d == p_frame.data
      raw == OdometerRaw(d)
      km == RatDiv(Rat(raw, 1), Rat(10, 1))
  IN IF OdometerValid(km)
     THEN /\ accepted' = accepted \cup {ID_ODOMETER}
          /\ IF AsFloat(StdMetrics.ms_v_pos_odometer) # km
             THEN /\ StdMetrics' =
                       [StdMetrics EXCEPT !.ms_v_pos_odometer = SetValue(km)]
                  /\ written' = <<"ms_v_pos_odometer">>
                  /\ UNCHANGED <<m_hvac_temp_c, m_pack_capacity_kwh,
                                 m_ac_voltage, m_ac_current, last_state,
                                 m_poll_state>>
             ELSE NoWrites
     ELSE NoWrites /\ UNCHANGED accepted

\* No frame taken as coming from another bus.
OtherBus_never(p_frame) == FALSE

\* if (p_frame->origin != m_can1) return;
OtherBus(p_frame) == p_frame.origin # m_can1

IncomingFrameCan1(p_frame) ==
  /\ ev' = [kind |-> "can", origin |-> p_frame.origin, id |-> p_frame.MsgID,
            len |-> p_frame.DLC, data |-> p_frame.data]
  /\ pollset' = <<>>
  /\ UNCHANGED <<task, probe>>
  /\ IF OtherBus(p_frame)
     THEN NoWrites /\ UNCHANGED accepted
     ELSE CASE p_frame.MsgID = ID_HANDBRAKE ->
                 Case0x266(p_frame) /\ UNCHANGED accepted
            [] p_frame.MsgID = ID_LOCK ->
                 Case0x281(p_frame) /\ UNCHANGED accepted
            [] p_frame.MsgID = ID_AC_VOLTAGE -> Case0x362(p_frame)
            [] p_frame.MsgID = ID_AC_CURRENT -> Case0x373(p_frame)
            [] p_frame.MsgID = ID_GEAR ->
                 Case0x510(p_frame) /\ UNCHANGED accepted
            [] p_frame.MsgID = ID_ODOMETER -> Case0x540(p_frame)
            [] OTHER -> NoWrites /\ UNCHANGED accepted

---------------------------------------------------------------------------
\* Frames delivered by the CAN driver.

\* Raw values on both sides of each end of the range lo..hi.
Around(lo, hi) ==
  ((lo - Margin) .. (lo + Margin - 1)) \cup ((hi - Margin + 1) .. (hi + Margin))

\* An 8-byte buffer with a 16-bit value in bytes 0-1, most significant first.
Data16(raw) == <<raw \div 256, raw % 256, 0, 0, 0, 0, 0, 0>>

\* An 8-byte buffer with a 24-bit value in bytes 4-6, least significant first.
Data24(raw) ==
  <<0, 0, 0, 0, raw % 256, (raw \div 256) % 256, (raw \div 65536) % 256, 0>>

VoltRaws == Around(15000, 28000) \cup {22600}

CurrRaws == Around(17, 6560) \cup {2388}

\* 192656 = 0x02f090, the observed frame 00 00 00 00 90 f0 02 00.
OdoRaws == {0, 192656, 10000000}

HandbrakeData == {<<0, 0, b, 0, 0, 0, 0, 0>> : b \in {1, 254}}

LockData == {<<0, b, 0, 0, 0, 0, 0, 0>> : b \in {LOCKED_BYTE, UNLOCKED_BYTE, 0, 170}}

GearData == {<<16, 73, 92, 51, 0, 16, 30, 0>>}

ID_UNKNOWN == 291   \* 0x123, an identifier no case handles

\* Every payload, per identifier.
Payloads ==
  [id \in {ID_HANDBRAKE, ID_LOCK, ID_AC_VOLTAGE, ID_AC_CURRENT, ID_GEAR,
           ID_ODOMETER, ID_UNKNOWN} |->
     CASE id = ID_HANDBRAKE -> HandbrakeData
       [] id = ID_LOCK -> LockData
       [] id = ID_AC_VOLTAGE -> {Data16(r) : r \in VoltRaws}
       [] id = ID_AC_CURRENT -> {Data16(r) : r \in CurrRaws}
       [] id = ID_GEAR -> GearData
       [] id = ID_ODOMETER -> {Data24(r) : r \in OdoRaws}
       [] OTHER -> GearData]

\* The byte count each identifier's rule reads (0 for an unhandled one).
RequiredLen(id) ==
  CASE id = ID_HANDBRAKE -> 3
    [] id \in {ID_LOCK, ID_AC_VOLTAGE, ID_AC_CURRENT} -> 2
    [] id = ID_GEAR -> 4
    [] id = ID_ODOMETER -> 7
    [] OTHER -> 0

\* Frames of the vehicle bus: full frames and frames one byte short of what
\* the rule reads (their buffer holding whatever it held), for the two rules
\* that test the length also frames just long enough; and full frames of
\* another bus.
FrameLens(id) ==
  IF id \in {ID_HANDBRAKE, ID_GEAR}
  THEN {RequiredLen(id) - 1, RequiredLen(id), 8}
  ELSE {RequiredLen(id) - 1, 8} \cap (0 .. 8)

CanFrames ==
  UNION {[origin : {m_can1}, MsgID : {id}, DLC : FrameLens(id),
          data : Payloads[id]] : id \in DOMAIN Payloads}
  \cup
  UNION {[origin : {2}, MsgID : {id}, DLC : {8}, data : Payloads[id]] :
           id \in DOMAIN Payloads}

CanStep == \E p_frame \in CanFrames : IncomingFrameCan1(p_frame)

NextCan == CanStep

SpecCan == Init /\ [][NextCan]_vars

\* Odometer frames on both sides of each end of the accepted range, the
\* observed frame and the largest 24-bit value, full and one byte short, on
\* the vehicle bus and on another; one frame of each other rule that
\* publishes.
OdoEdgeRaws ==
  (0 .. Margin) \cup ((10000000 - Margin) .. (10000000 + Margin - 1))
    \cup {192656, 16777215}

OdoFrames ==
  [origin : {m_can1}, MsgID : {ID_ODOMETER}, DLC : {6, 8},
   data : {Data24(r) : r \in OdoEdgeRaws}]
  \cup
  {[origin |-> 2, MsgID |-> ID_ODOMETER, DLC |-> 8, data |-> Data24(192656)],
   [origin |-> m_can1, MsgID |-> ID_LOCK, DLC |-> 8,
    data |-> <<0, LOCKED_BYTE, 0, 0, 0, 0, 0, 0>>],
   [origin |-> m_can1, MsgID |-> ID_AC_VOLTAGE, DLC |-> 8,
    data |-> Data16(22600)],
   [origin |-> m_can1, MsgID |-> ID_AC_CURRENT, DLC |-> 8,
    data |-> Data16(2388)]}

OdoStep == \E p_frame \in OdoFrames : IncomingFrameCan1(p_frame)

NextOdo == OdoStep

SpecOdo == Init /\ [][NextOdo]_vars

---------------------------------------------------------------------------
\* Cases 0x362 and 0x373 delivered by two concurrent sources: each handler
\* advances one access of the shared members or metrics at a time, and the
\* steps of the two interleave freely.  Neither case takes a lock.  The
\* accesses race, so the partner value of the product is either the one the
\* test read or the one in the member at that moment.

ConcVoltRaws == {22600, 28000}

ConcCurrRaws == {2388, 3280}

\* case 0x362, one access per step.
VoltageTask ==
  LET t == task.volt
      Goto(r) == task' = [task EXCEPT !.volt = r]
  IN /\ UNCHANGED <<m_hvac_temp_c, m_pack_capacity_kwh, m_ac_current,
                    last_state, m_poll_state, ev, written, pollset, probe>>
     /\ CASE t.pc = "idle" ->
               \E raw \in ConcVoltRaws :
                 LET v == RatDiv(Rat(raw, 1), Rat(100, 1))
                 IN /\ VoltageValid(v)
                    /\ m_ac_voltage' = v
                    /\ accepted' = accepted \cup {ID_AC_VOLTAGE}
                    /\ Goto([t EXCEPT !.pc = "publish", !.x = v])
                    /\ UNCHANGED StdMetrics
          [] t.pc = "publish" ->
               /\ StdMetrics' =
                    [StdMetrics EXCEPT !.ms_v_charge_voltage = SetValue(t.x)]
               /\ Goto([t EXCEPT !.pc = "test"])
               /\ UNCHANGED <<m_ac_voltage, accepted>>
          [] t.pc = "test" ->
               /\ IF CurrentKnown
                  THEN Goto([t EXCEPT !.pc = "compute",
                                      !.partner = m_ac_current])
                  ELSE Goto(Idle)
               /\ UNCHANGED <<StdMetrics, m_ac_voltage, accepted>>
          [] t.pc = "compute" ->
               /\ \E i \in {t.partner, m_ac_current} :
                    Goto([t EXCEPT !.pc = "write",
                                   !.p_kw = ChargePower(m_ac_voltage, i)])
               /\ UNCHANGED <<StdMetrics, m_ac_voltage, accepted>>
          [] t.pc = "write" ->
               /\ StdMetrics' =
                    [StdMetrics EXCEPT !.ms_v_charge_power = SetValue(t.p_kw)]
               /\ Goto(Idle)
               /\ UNCHANGED <<m_ac_voltage, accepted>>

\* case 0x373, one access per step.
CurrentTask ==
  LET t == task.curr
      Goto(r) == task' = [task EXCEPT !.curr = r]
  IN /\ UNCHANGED <<m_hvac_temp_c, m_pack_capacity_kwh, m_ac_voltage,
                    last_state, m_poll_state, ev, written, pollset, probe>>
     /\ CASE t.pc = "idle" ->
               \E raw \in ConcCurrRaws :
                 LET i == RatDiv(Rat(raw, 1), Rat(164, 1))
                 IN /\ CurrentValid(i)
                    /\ m_ac_current' = i
                    /\ accepted' = accepted \cup {ID_AC_CURRENT}
                    /\ Goto([t EXCEPT !.pc = "publish", !.x = i])
                    /\ UNCHANGED StdMetrics
          [] t.pc = "publish" ->
               /\ StdMetrics' =
                    [StdMetrics EXCEPT !.ms_v_charge_current = SetValue(t.x)]
               /\ Goto([t EXCEPT !.pc = "test"])
               /\ UNCHANGED <<m_ac_current, accepted>>
          [] t.pc = "test" ->
               /\ IF VoltageKnown
                  THEN Goto([t EXCEPT !.pc = "compute",
                                      !.partner = m_ac_voltage])
                  ELSE Goto(Idle)
               /\ UNCHANGED <<StdMetrics, m_ac_current, accepted>>
          [] t.pc = "compute" ->
               /\ \E v \in {t.partner, m_ac_voltage} :
                    Goto([t EXCEPT !.pc = "write",
                                   !.p_kw = ChargePower(v, m_ac_current)])
               /\ UNCHANGED <<StdMetrics, m_ac_current, accepted>>
          [] t.pc = "write" ->
               /\ StdMetrics' =
                    [StdMetrics EXCEPT !.ms_v_charge_power = SetValue(t.p_kw)]
               /\ Goto(Idle)
               /\ UNCHANGED <<m_ac_current, accepted>>

NextConc == VoltageTask \/ CurrentTask

SpecConc == Init /\ [][NextConc]_vars

---------------------------------------------------------------------------
\* The poll list and the poller's requests.

\* The list with READY polled only while on or charging.
PollTime_readyOnlyOn(pid) ==
  CASE pid = PID_READY -> <<0, 10, 10>>
    [] OTHER -> <<0, 30, 30>>

\* The list with SOC polled in every state.
PollTime_socAlways(pid) ==
  CASE pid = PID_SOC -> <<10, 10, 10>>
    [] pid = PID_READY -> <<5, 10, 10>>
    [] OTHER -> <<0, 30, 30>>

\* maxt90_polls: the poll period in seconds of each pid in poll states 0
\* (off), 1 (on) and 2 (charging); 0 is "not polled in this state".
PollTime(pid) ==
  CASE pid = PID_VIN -> <<0, 3600, 3600>>
    [] pid = PID_SOC -> <<0, 10, 10>>
    [] pid = PID_SOH -> <<0, 1800, 1800>>
    [] pid = PID_READY -> <<5, 10, 10>>
    [] pid = PID_PLUG -> <<0, 10, 10>>
    [] pid = PID_HVAC -> <<0, 30, 30>>
    [] pid = PID_AMBIENT -> <<0, 30, 30>>

\* The pids of the list.
PollPids ==
  {PID_VIN, PID_SOC, PID_SOH, PID_READY, PID_PLUG, PID_HVAC, PID_AMBIENT}

\* The poller sends the request of a list entry whose period in the current
\* poll state is not zero (when its period has elapsed: any moment here).
PollerSend(pid) ==
  /\ PollTime(pid)[m_poll_state + 1] # 0
  /\ ev' = [kind |-> "request", origin |-> 0, id |-> pid, len |-> 0,
            data |-> <<>>]
  /\ written' = <<>>
  /\ pollset' = <<>>
  /\ UNCHANGED <<core, accepted, task, probe>>

---------------------------------------------------------------------------
\* OBD-II poll reply handler.  A reply is the job's pid, the reassembled
\* payload data and its length.

\* PollSetState(state) of the poller.
PollSetState(state) == m_poll_state' = state /\ pollset' = <<state>>

\* case 0xF190: VIN, the payload copied as text.
Case0xF190(data, length) ==
  IF length >= 1
  THEN /\ StdMetrics' =
            [StdMetrics EXCEPT !.ms_v_vin = SetValue(SubSeq(data, 1, length))]
       /\ written' = <<"ms_v_vin">>
       /\ UNCHANGED <<m_hvac_temp_c, m_pack_capacity_kwh, m_ac_voltage,
                      m_ac_current, last_state, m_poll_state>>
  ELSE NoWrites

\* The bounds with zero included.
SocValid_zero(soc) == RatLeq(Zero, soc) /\ RatLeq(soc, Rat(100, 1))

\* SOC plausibility: soc > 0 && soc <= 100.
SocValid(soc) == RatLt(Zero, soc) /\ RatLeq(soc, Rat(100, 1))

\* case 0xE002: SOC, first byte, percent.
Case0xE002(data, length) ==
  IF length >= 1
  THEN LET soc == Rat(data[1], 1) IN
       IF SocValid(soc)
       THEN /\ accepted' = accepted \cup {PID_SOC}
            /\ IF AsFloat(StdMetrics.ms_v_bat_soc) # soc
               THEN /\ StdMetrics' =
                         [StdMetrics EXCEPT !.ms_v_bat_soc = SetValue(soc)]
                    /\ written' = <<"ms_v_bat_soc">>
                    /\ UNCHANGED <<m_hvac_temp_c, m_pack_capacity_kwh,
                                   m_ac_voltage, m_ac_current, last_state,
                                   m_poll_state>>
               ELSE NoWrites
       ELSE NoWrites /\ UNCHANGED accepted
  ELSE NoWrites /\ UNCHANGED accepted

\* SOH filter: raw == 0xFFFF || raw == 0x1800 || soh <= 50.0f || soh > 150.0f.
SohInvalid_noPlaceholder(raw, soh) ==
  raw = 65535 \/ RatLeq(soh, Rat(50, 1)) \/ RatLt(Rat(150, 1), soh)

SohInvalid(raw, soh) ==
  raw = 65535 \/ raw = 6144 \/ RatLeq(soh, Rat(50, 1)) \/ RatLt(Rat(150, 1), soh)

\* usable_kwh = m_pack_capacity_kwh->AsFloat() * (soh / 100.0f)
UsableKwh_noScale(soh) == RatMul(AsFloat(m_pack_capacity_kwh), soh)

UsableKwh(soh) ==
  RatMul(AsFloat(m_pack_capacity_kwh), RatDiv(soh, Rat(100, 1)))

\* case 0xE003: SOH, u16 big-endian, percent * 100, and the usable capacity.
Case0xE003(data, length) ==
  IF length >= 2
  THEN LET raw == u16be(data)
           soh == RatDiv(Rat(raw, 1), Rat(100, 1))
       IN IF SohInvalid(raw, soh)
          THEN NoWrites /\ UNCHANGED accepted
          ELSE /\ accepted' = accepted \cup {PID_SOH}
               /\ IF AsFloat(StdMetrics.ms_v_bat_soh) # soh
                  THEN /\ StdMetrics' =
                            [StdMetrics EXCEPT
                               !.ms_v_bat_soh = SetValue(soh),
                               !.ms_v_bat_capacity = SetValue(UsableKwh(soh))]
                       /\ written' = <<"ms_v_bat_soh", "ms_v_bat_capacity">>
                       /\ UNCHANGED <<m_hvac_temp_c, m_pack_capacity_kwh,
                                      m_ac_voltage, m_ac_current, last_state,
                                      m_poll_state>>
                  ELSE NoWrites
  ELSE NoWrites /\ UNCHANGED accepted

\* Bit 2 alone.
ReadyBits_bit2only(v) == BitAnd(v, 4) # 0

\* ready = (v & 0x000C) != 0
ReadyBits(v) == BitAnd(v, 12) # 0

\* The poll state READY asks for, or none: decided on a change of the
\* readiness metric, from the new readiness and the current poll state.
ReadyTransition_toCharging(ready, prev_ready) ==
  IF ready # prev_ready
  THEN IF ~ready /\ m_poll_state # 0 THEN <<0>>
       ELSE IF ready /\ m_poll_state = 0 THEN <<2>>
       ELSE <<>>
  ELSE <<>>

ReadyTransition_onOnly(ready, prev_ready) ==
  IF ready # prev_ready
  THEN IF ready /\ m_poll_state = 0 THEN <<1>> ELSE <<>>
  ELSE <<>>

\* The poll state left alone by a reply that clears the readiness.
ReadyTransition_stayOn(ready, prev_ready) ==
  IF ready # prev_ready /\ ready /\ m_poll_state = 0 THEN <<1>> ELSE <<>>

ReadyTransition(ready, prev_ready) ==
  IF ready # prev_ready
  THEN IF ~ready /\ m_poll_state # 0 THEN <<0>>
       ELSE IF ready /\ m_poll_state = 0 THEN <<1>>
       ELSE <<>>
  ELSE <<>>

\* case 0xE004: READY bitfield, drives ms_v_env_on and the poll state.
Case0xE004(data, length) ==
  IF length >= 2
  THEN LET v == u16be(data)
           ready == ReadyBits(v)
           prev_ready == AsBool(StdMetrics.ms_v_env_on)
           to == ReadyTransition(ready, prev_ready)
       IN /\ StdMetrics' = [StdMetrics EXCEPT !.ms_v_env_on = SetValue(ready)]
          /\ written' = <<"ms_v_env_on">>
          /\ IF to # <<>>
             THEN PollSetState(to[1])
             ELSE pollset' = <<>> /\ UNCHANGED m_poll_state
          /\ UNCHANGED <<m_hvac_temp_c, m_pack_capacity_kwh, m_ac_voltage,
                         m_ac_current, last_state>>
  ELSE NoWrites /\ pollset' = <<>>

\* case 0xE009: plug present, low byte == 0.
Case0xE009(data, length) ==
  IF length >= 2
  THEN LET v == u16be(data)
           plug_present == (BitAnd(v, 255) = 0)
       IN /\ StdMetrics' =
               [StdMetrics EXCEPT !.ms_v_charge_pilot = SetValue(plug_present)]
          /\ written' = <<"ms_v_charge_pilot">>
          /\ UNCHANGED <<m_hvac_temp_c, m_pack_capacity_kwh, m_ac_voltage,
                         m_ac_current, last_state, m_poll_state>>
  ELSE NoWrites

\* The pattern taken as bogus whatever the readiness.
HvacBogusOff_always(env_on, raw) == raw = 458

\* Known bogus pattern: 45.8 degC when the car is off.
HvacBogusOff(env_on, raw) == ~env_on /\ raw = 458

\* case 0xE010: HVAC / coolant temperature, u16 big-endian, 0.1 degC.
Case0xE010(data, length) ==
  IF length >= 2
  THEN LET raw == u16be(data)
           t == RatDiv(Rat(raw, 1), Rat(10, 1))
           env_on == AsBool(StdMetrics.ms_v_env_on)
       IN IF HvacBogusOff(env_on, raw)
          THEN NoWrites /\ UNCHANGED accepted
          ELSE IF raw = 512 \/ raw = 65535 \/ RatLt(t, Rat(-40, 1))
                    \/ RatLt(Rat(125, 1), t)
          THEN NoWrites /\ UNCHANGED accepted
          ELSE /\ m_hvac_temp_c' = SetValue(t)
               /\ accepted' = accepted \cup {PID_HVAC}
               /\ written' = <<"xmt.v.hvac.temp">>
               /\ UNCHANGED <<StdMetrics, m_pack_capacity_kwh, m_ac_voltage,
                              m_ac_current, last_state, m_poll_state>>
  ELSE NoWrites /\ UNCHANGED accepted

\* No pattern taken as bogus.
AmbientBogusOff_never(env_on, raw) == FALSE

\* Known bogus pattern: 7.5 degC when the car is off.
AmbientBogusOff(env_on, raw) == ~env_on /\ raw = 75

\* case 0xE025: ambient temperature, u16 big-endian, 0.1 degC.
Case0xE025(data, length) ==
  IF length >= 2
  THEN LET raw == u16be(data)
           ta == RatDiv(Rat(raw, 1), Rat(10, 1))
           env_on == AsBool(StdMetrics.ms_v_env_on)
       IN IF AmbientBogusOff(env_on, raw)
          THEN NoWrites /\ UNCHANGED accepted
          ELSE IF raw = 512 \/ raw = 65535 \/ RatLt(ta, Rat(-50, 1))
                    \/ RatLt(Rat(80, 1), ta)
          THEN NoWrites /\ UNCHANGED accepted
          ELSE /\ StdMetrics' =
                    [StdMetrics EXCEPT !.ms_v_env_temp = SetValue(ta)]
               /\ accepted' = accepted \cup {PID_AMBIENT}
               /\ written' = <<"ms_v_env_temp">>
               /\ UNCHANGED <<m_hvac_temp_c, m_pack_capacity_kwh, m_ac_voltage,
                              m_ac_current, last_state, m_poll_state>>
  ELSE NoWrites /\ UNCHANGED accepted

IncomingPollReply(job, data, length) ==
  /\ ev' = [kind |-> "poll", origin |-> 0, id |-> job.pid, len |-> length,
            data |-> data]
  /\ UNCHANGED <<task, probe>>
  /\ CASE job.pid = PID_VIN ->
            Case0xF190(data, length) /\ pollset' = <<>> /\ UNCHANGED accepted
       [] job.pid = PID_SOC -> Case0xE002(data, length) /\ pollset' = <<>>
       [] job.pid = PID_SOH -> Case0xE003(data, length) /\ pollset' = <<>>
       [] job.pid = PID_READY -> Case0xE004(data, length) /\ UNCHANGED accepted
       [] job.pid = PID_PLUG ->
            Case0xE009(data, length) /\ pollset' = <<>> /\ UNCHANGED accepted
       [] job.pid = PID_HVAC -> Case0xE010(data, length) /\ pollset' = <<>>
       [] job.pid = PID_AMBIENT -> Case0xE025(data, length) /\ pollset' = <<>>
       [] OTHER -> NoWrites /\ pollset' = <<>> /\ UNCHANGED accepted

---------------------------------------------------------------------------
\* Replies delivered by the poller.

\* A payload holding a 16-bit value, most significant byte first.
Reply16(raw) == <<raw \div 256, raw % 256>>

SocBytes == {0, 1, 100, 101}

SohRaws == Around(5001, 15000) \cup {6144, 9500, 65535}

ReadyRaws == {0, 3, 4, 8, 65523}

PlugRaws == {0, 1}

HvacRaws == {215, 458, 512, 1251}

AmbientRaws == {75, 512, 801}

PID_UNKNOWN == 57344   \* 0xE000, a pid no case handles

\* Every payload, per pid: the values above, and one too short to decode.
Replies ==
  [pid \in {PID_VIN, PID_SOC, PID_SOH, PID_READY, PID_PLUG, PID_HVAC,
            PID_AMBIENT, PID_UNKNOWN} |->
     CASE pid = PID_VIN -> UNION {[1 .. n -> {76}] : n \in 0 .. VinMaxLen}
       [] pid = PID_SOC -> {<<b>> : b \in SocBytes} \cup {<<>>}
       [] pid = PID_SOH -> {Reply16(r) : r \in SohRaws} \cup {<<37>>}
       [] pid = PID_READY -> {Reply16(r) : r \in ReadyRaws} \cup {<<12>>}
       [] pid = PID_PLUG -> {Reply16(r) : r \in PlugRaws} \cup {<<0>>}
       [] pid = PID_HVAC -> {Reply16(r) : r \in HvacRaws} \cup {<<0>>}
       [] pid = PID_AMBIENT -> {Reply16(r) : r \in AmbientRaws} \cup {<<0>>}
       [] OTHER -> {<<1, 2>>}]

PollStep ==
  \E pid \in DOMAIN Replies : \E data \in Replies[pid] :
    IncomingPollReply([pid |-> pid], data, Len(data))

NextPoll == PollStep

SpecPoll == Init /\ [][NextPoll]_vars

---------------------------------------------------------------------------
\* The whole module: frames and replies arrive in any order, each handled to
\* completion.  One typical frame or reply per signal, with a rejected value
\* for some.

MixFrames ==
  {[origin |-> m_can1, MsgID |-> ID_HANDBRAKE, DLC |-> 8,
    data |-> <<0, 0, 1, 0, 0, 0, 0, 0>>],
   [origin |-> m_can1, MsgID |-> ID_LOCK, DLC |-> 8,
    data |-> <<0, LOCKED_BYTE, 0, 0, 0, 0, 0, 0>>],
   [origin |-> m_can1, MsgID |-> ID_LOCK, DLC |-> 8,
    data |-> <<0, UNLOCKED_BYTE, 0, 0, 0, 0, 0, 0>>],
   [origin |-> m_can1, MsgID |-> ID_AC_VOLTAGE, DLC |-> 8,
    data |-> Data16(22600)],
   [origin |-> m_can1, MsgID |-> ID_AC_VOLTAGE, DLC |-> 8,
    data |-> Data16(28000)],
   [origin |-> m_can1, MsgID |-> ID_AC_VOLTAGE, DLC |-> 8,
    data |-> Data16(65535)],
   [origin |-> m_can1, MsgID |-> ID_AC_CURRENT, DLC |-> 8,
    data |-> Data16(2388)],
   [origin |-> m_can1, MsgID |-> ID_AC_CURRENT, DLC |-> 8,
    data |-> Data16(16)],
   [origin |-> m_can1, MsgID |-> ID_ODOMETER, DLC |-> 8,
    data |-> Data24(192656)],
   [origin |-> 2, MsgID |-> ID_AC_CURRENT, DLC |-> 8, data |-> Data16(17)]}

MixReplies ==
  {[pid |-> PID_VIN, data |-> <<76>>],
   [pid |-> PID_SOC, data |-> <<100>>],
   [pid |-> PID_SOH, data |-> Reply16(9500)],
   [pid |-> PID_SOH, data |-> Reply16(65535)],
   [pid |-> PID_READY, data |-> Reply16(0)],
   [pid |-> PID_READY, data |-> Reply16(4)],
   [pid |-> PID_PLUG, data |-> Reply16(0)],
   [pid |-> PID_HVAC, data |-> Reply16(458)],
   [pid |-> PID_AMBIENT, data |-> Reply16(75)]}

Next ==
  \/ \E p_frame \in MixFrames : IncomingFrameCan1(p_frame)
  \/ \E r \in MixReplies : IncomingPollReply([pid |-> r.pid], r.data, Len(r.data))

Spec == Init /\ [][Next]_vars

\* Every signal that has a validity predicate, with one accepted value and
\* the rejected values next to its bounds and its bogus patterns; the lock
\* frame and the READY replies set the debounce byte, the readiness and the
\* poll state those rejected values must leave alone.
FilterFrames ==
  [origin : {m_can1}, MsgID : {ID_AC_VOLTAGE}, DLC : {8},
   data : {Data16(r) : r \in {14999, 22600, 28001}}]
  \cup
  [origin : {m_can1}, MsgID : {ID_AC_CURRENT}, DLC : {8},
   data : {Data16(r) : r \in {16, 2388, 6561}}]
  \cup
  [origin : {m_can1}, MsgID : {ID_ODOMETER}, DLC : {8},
   data : {Data24(r) : r \in OdoRaws}]
  \cup
  {[origin |-> m_can1, MsgID |-> ID_LOCK, DLC |-> 8,
    data |-> <<0, LOCKED_BYTE, 0, 0, 0, 0, 0, 0>>]}

FilterReplies ==
  [pid : {PID_SOC}, data : {<<b>> : b \in {0, 100, 101}}]
  \cup
  [pid : {PID_SOH},
   data : {Reply16(r) : r \in {5000, 6144, 9500, 15001, 65535}}]
  \cup
  [pid : {PID_READY}, data : {Reply16(r) : r \in {0, 4}}]
  \cup
  [pid : {PID_HVAC}, data : {Reply16(r) : r \in {458, 512, 1251, 65535}}]
  \cup
  [pid : {PID_AMBIENT}, data : {Reply16(r) : r \in {75, 512, 801, 65535}}]

FilterFrameStep == \E p_frame \in FilterFrames : IncomingFrameCan1(p_frame)

FilterReplyStep ==
  \E r \in FilterReplies :
    IncomingPollReply([pid |-> r.pid], r.data, Len(r.data))

NextFilter == FilterFrameStep \/ FilterReplyStep

SpecFilter == Init /\ [][NextFilter]_vars

\* Two accepted values of each AC signal, frames of other identifiers, and
\* replies that switch the poll state on and off and publish other signals.
StaleFrames ==
  [origin : {m_can1}, MsgID : {ID_AC_VOLTAGE}, DLC : {8},
   data : {Data16(r) : r \in {22600, 28000}}]
  \cup
  [origin : {m_can1}, MsgID : {ID_AC_CURRENT}, DLC : {8},
   data : {Data16(r) : r \in {2388, 3280}}]
  \cup
  {[origin |-> m_can1, MsgID |-> ID_LOCK, DLC |-> 8,
    data |-> <<0, LOCKED_BYTE, 0, 0, 0, 0, 0, 0>>],
   [origin |-> m_can1, MsgID |-> ID_ODOMETER, DLC |-> 8,
    data |-> Data24(192656)]}

StaleReplies ==
  {[pid |-> PID_READY, data |-> Reply16(0)],
   [pid |-> PID_READY, data |-> Reply16(4)],
   [pid |-> PID_SOC, data |-> <<100>>],
   [pid |-> PID_PLUG, data |-> Reply16(0)]}

StaleFrameStep == \E p_frame \in StaleFrames : IncomingFrameCan1(p_frame)

StaleReplyStep ==
  \E r \in StaleReplies :
    IncomingPollReply([pid |-> r.pid], r.data, Len(r.data))

NextStale == StaleFrameStep \/ StaleReplyStep

SpecStale == Init /\ [][NextStale]_vars

\* The poller at work: one request at a time, each answered by a reply or
\* given up after a timeout; an entry with a period other than zero in the
\* current poll state gets its turn again and again.
LiveData(pid) ==
  CASE pid = PID_READY -> {Reply16(r) : r \in {0, 4, 8}}
    [] pid = PID_VIN -> {<<76>>}
    [] pid = PID_SOC -> {<<100>>}
    [] pid = PID_SOH -> {Reply16(9500)}
    [] pid = PID_PLUG -> {Reply16(0)}
    [] pid = PID_HVAC -> {Reply16(458)}
    [] pid = PID_AMBIENT -> {Reply16(75)}

SendReady == ev.kind # "request" /\ PollerSend(PID_READY)

SendOther ==
  /\ ev.kind # "request"
  /\ \E pid \in PollPids \ {PID_READY} : PollerSend(pid)

LiveReply ==
  /\ ev.kind = "request"
  /\ \E data \in LiveData(ev.id) :
       IncomingPollReply([pid |-> ev.id], data, Len(data))

Timeout ==
  /\ ev.kind = "request"
  /\ ev' = [kind |-> "timeout", origin |-> 0, id |-> ev.id, len |-> 0,
            data |-> <<>>]
  /\ written' = <<>>
  /\ pollset' = <<>>
  /\ UNCHANGED <<core, accepted, task, probe>>

NextLive == SendReady \/ SendOther \/ LiveReply \/ Timeout

SpecLive ==
  /\ Init
  /\ [][NextLive]_vars
  /\ SF_vars(SendReady)
  /\ WF_vars(LiveReply \/ Timeout)

\* A frame and a reply handled in both orders from the same state: frame
\* then reply, then, from that state again, reply then frame.
CoreNow ==
  [StdMetrics |-> StdMetrics, m_hvac_temp_c |-> m_hvac_temp_c,
   m_pack_capacity_kwh |-> m_pack_capacity_kwh,
   m_ac_voltage |-> m_ac_voltage, m_ac_current |-> m_ac_current,
   last_state |-> last_state, m_poll_state |-> m_poll_state]

CommFrames ==
  {[origin |-> m_can1, MsgID |-> ID_HANDBRAKE, DLC |-> 8,
    data |-> <<0, 0, 1, 0, 0, 0, 0, 0>>],
   [origin |-> m_can1, MsgID |-> ID_LOCK, DLC |-> 8,
    data |-> <<0, LOCKED_BYTE, 0, 0, 0, 0, 0, 0>>],
   [origin |-> m_can1, MsgID |-> ID_AC_VOLTAGE, DLC |-> 8,
    data |-> Data16(22600)],
   [origin |-> m_can1, MsgID |-> ID_AC_CURRENT, DLC |-> 8,
    data |-> Data16(2388)],
   [origin |-> m_can1, MsgID |-> ID_ODOMETER, DLC |-> 8,
    data |-> Data24(192656)]}

CommReplies ==
  {[pid |-> PID_VIN, data |-> <<76>>],
   [pid |-> PID_SOC, data |-> <<100>>],
   [pid |-> PID_SOH, data |-> Reply16(9500)],
   [pid |-> PID_READY, data |-> Reply16(0)],
   [pid |-> PID_READY, data |-> Reply16(4)],
   [pid |-> PID_PLUG, data |-> Reply16(0)],
   [pid |-> PID_HVAC, data |-> Reply16(458)],
   [pid |-> PID_AMBIENT, data |-> Reply16(75)]}

Pick ==
  /\ probe.stage = "none" \/ (probe.stage = "rf" /\ ev.kind = "can")
  /\ \E f \in CommFrames : \E r \in CommReplies :
       probe' = [stage |-> "fr", f |-> f, r |-> r, base |-> CoreNow,
                 first |-> CoreNow]
  /\ ev' = [kind |-> "pick", origin |-> 0, id |-> 0, len |-> 0, data |-> <<>>]
  /\ written' = <<>>
  /\ pollset' = <<>>
  /\ UNCHANGED <<core, accepted, task>>

ProbeFrame ==
  /\ \/ probe.stage = "fr" /\ ev.kind = "pick"
     \/ probe.stage = "rf" /\ ev.kind = "poll"
  /\ IncomingFrameCan1(probe.f)

ProbeReply ==
  /\ \/ probe.stage = "fr" /\ ev.kind = "can"
     \/ probe.stage = "rf" /\ ev.kind = "pick"
  /\ IncomingPollReply([pid |-> probe.r.pid], probe.r.data, Len(probe.r.data))

\* The result of the first order is kept and the state the pair started
\* from is taken up again.
Rewind ==
  /\ probe.stage = "fr" /\ ev.kind = "poll"
  /\ probe' = [probe EXCEPT !.stage = "rf", !.first = CoreNow]
  /\ StdMetrics' = probe.base.StdMetrics
  /\ m_hvac_temp_c' = probe.base.m_hvac_temp_c
  /\ m_pack_capacity_kwh' = probe.base.m_pack_capacity_kwh
  /\ m_ac_voltage' = probe.base.m_ac_voltage
  /\ m_ac_current' = probe.base.m_ac_current
  /\ last_state' = probe.base.last_state
  /\ m_poll_state' = probe.base.m_poll_state
  /\ ev' = [kind |-> "pick", origin |-> 0, id |-> 0, len |-> 0, data |-> <<>>]
  /\ written' = <<>>
  /\ pollset' = <<>>
  /\ UNCHANGED <<accepted, task>>

NextCommute == Pick \/ ProbeFrame \/ ProbeReply \/ Rewind

SpecCommute == Init /\ [][NextCommute]_vars

\* The module is destroyed and a new one constructed in the same process:
\* the members and the metrics start again as at Init, while the static
\* last_state of case 0x281, initialised once per process, keeps its value.
Construct ==
  /\ StdMetrics' = FreshMetrics
  /\ m_hvac_temp_c' = SetValue(Zero)
  /\ m_pack_capacity_kwh' = SetValue(NominalCapacity)
  /\ m_ac_voltage' = Zero
  /\ m_ac_current' = Zero
  /\ m_poll_state' = 0
  /\ ev' = [kind |-> "construct", origin |-> 0, id |-> 0, len |-> 0,
            data |-> <<>>]
  /\ written' = <<>>
  /\ pollset' = <<>>
  /\ accepted' = {}
  /\ UNCHANGED <<last_state, task, probe>>

ReinitFrames ==
  [origin : {m_can1}, MsgID : {ID_LOCK}, DLC : {8},
   data : {<<0, b, 0, 0, 0, 0, 0, 0>> : b \in {LOCKED_BYTE, UNLOCKED_BYTE, 0}}]
  \cup
  {[origin |-> m_can1, MsgID |-> ID_AC_VOLTAGE, DLC |-> 8,
    data |-> Data16(22600)],
   [origin |-> m_can1, MsgID |-> ID_AC_CURRENT, DLC |-> 8,
    data |-> Data16(2388)]}

ReinitReplies ==
  [pid : {PID_READY}, data : {Reply16(r) : r \in ReadyRaws} \cup {<<12>>}]
  \cup
  {[pid |-> PID_SOH, data |-> Reply16(9500)]}

ReinitFrameStep == \E p_frame \in ReinitFrames : IncomingFrameCan1(p_frame)

ReinitReplyStep ==
  \E r \in ReinitReplies :
    IncomingPollReply([pid |-> r.pid], r.data, Len(r.data))

NextReinit == ReinitFrameStep \/ ReinitReplyStep \/ Construct

SpecReinit == Init /\ [][NextReinit]_vars

\* The poller's requests together with the replies, in any order (a reply
\* may arrive late, after the poll state has changed).
SendStep == \E pid \in PollPids : PollerSend(pid)

ReplyStep ==
  \E r \in MixReplies : IncomingPollReply([pid |-> r.pid], r.data, Len(r.data))

NextSched == SendStep \/ ReplyStep

SpecSched == Init /\ [][NextSched]_vars

---------------------------------------------------------------------------
\* Reading the last event, for the properties below.  These restate what the
\* documentation says of a frame or reply; they use none of the decoder's
\* definitions.

IsCan1(e, id) == e.kind = "can" /\ e.origin = 1 /\ e.id = id

IsReply(e, pid, minlen) == e.kind = "poll" /\ e.id = pid /\ e.len >= minlen

\* The big-endian 16-bit value in bytes 0-1.
Raw16(e) == e.data[1] * 256 + e.data[2]

\* Bits 2 or 3 of the READY value.
BitsTwoOrThree(e) == (Raw16(e) \div 4) % 4 # 0

Metric(v) == [def |-> TRUE, val |-> v]

\* v * a / 1000 of two rationals.
Kilo(v, a) == Rat(v.n * a.n, v.d * a.d * 1000)

VoltAccepted(e) == Raw16(e) >= 15000 /\ Raw16(e) <= 28000

CurrAccepted(e) == Raw16(e) >= 17 /\ Raw16(e) <= 6560

SohAccepted(e) == Raw16(e) >= 5001 /\ Raw16(e) <= 15000 /\ Raw16(e) # 6144

---------------------------------------------------------------------------
\* C1: on every READY reply of length >= 2 the poll state after the reply is
\* decided by the computed readiness and the poll state before it alone:
\* OFF and ready gives ON, ON and not ready gives OFF, otherwise it stays; a
\* change is a PollSetState call and no call is made otherwise.
C1_ReadyTransition ==
  [][IsReply(ev', PID_READY, 2) =>
       LET ready == BitsTwoOrThree(ev') IN
       /\ (m_poll_state = 0 /\ ready => m_poll_state' = 1 /\ pollset' = <<1>>)
       /\ (m_poll_state = 1 /\ ~ready => m_poll_state' = 0 /\ pollset' = <<0>>)
       /\ (m_poll_state = 1 /\ ready => m_poll_state' = 1 /\ pollset' = <<>>)
       /\ (m_poll_state = 0 /\ ~ready => m_poll_state' = 0 /\ pollset' = <<>>)
    ]_vars

\* A READY reply reporting not ready has just switched the poller from ON to OFF.
C1_Witness ==
  /\ IsReply(ev, PID_READY, 2) /\ ~BitsTwoOrThree(ev)
  /\ pollset = <<0>> /\ m_poll_state = 0

\* C2: the poll state is OFF after construction and only ever OFF or ON.
C2_PollStateOffOrOn ==
  /\ (ev.kind = "none" => m_poll_state = 0)
  /\ m_poll_state \in {0, 1}

\* The poller is ON while a CAN frame has just been handled.
C2_Witness == m_poll_state = 1 /\ ev.kind = "can" /\ written # <<>>

\* C3: the charge power is never written before a voltage frame and a
\* current frame have both been accepted; an accepted voltage frame with no
\* current accepted so far publishes the voltage alone, and the first accepted
\* current frame after an accepted voltage publishes power = V * A / 1000.
C3_PowerNeedsBoth ==
  /\ [](StdMetrics.ms_v_charge_power.def
          => {ID_AC_VOLTAGE, ID_AC_CURRENT} \subseteq accepted)
  /\ [][IsCan1(ev', ID_AC_VOLTAGE) /\ VoltAccepted(ev')
          /\ ID_AC_CURRENT \notin accepted
        => /\ written' = <<"ms_v_charge_voltage">>
           /\ ~StdMetrics'.ms_v_charge_power.def
           /\ ID_AC_VOLTAGE \in accepted'
     ]_vars
  /\ [][IsCan1(ev', ID_AC_CURRENT) /\ CurrAccepted(ev')
          /\ ID_AC_CURRENT \notin accepted /\ ID_AC_VOLTAGE \in accepted
        => /\ written' = <<"ms_v_charge_current", "ms_v_charge_power">>
           /\ StdMetrics'.ms_v_charge_power =
                Metric(Kilo(StdMetrics.ms_v_charge_voltage.val,
                            Rat(Raw16(ev'), 164)))
     ]_vars

\* Voltage 226.00 V was accepted first, and current raw 2388 has just
\* published the power 226 * (2388/164) / 1000.
C3_Witness ==
  /\ IsCan1(ev, ID_AC_CURRENT) /\ Raw16(ev) = 2388
  /\ StdMetrics.ms_v_charge_voltage = Metric(Rat(226, 1))
  /\ written = <<"ms_v_charge_current", "ms_v_charge_power">>
  /\ StdMetrics.ms_v_charge_power = Metric(Rat(226 * 2388, 164 * 1000))

\* C4: once a voltage and a current have been accepted, every accepted
\* voltage or current frame republishes the power, and the power metric is
\* (cached voltage * cached current) / 1000, which is also the product of the
\* published voltage and current metrics / 1000.
C4_PowerFollowsBoth ==
  /\ []({ID_AC_VOLTAGE, ID_AC_CURRENT} \subseteq accepted
          => /\ StdMetrics.ms_v_charge_power =
                  Metric(Kilo(m_ac_voltage, m_ac_current))
             /\ StdMetrics.ms_v_charge_power =
                  Metric(Kilo(StdMetrics.ms_v_charge_voltage.val,
                              StdMetrics.ms_v_charge_current.val)))
  /\ [][/\ \/ IsCan1(ev', ID_AC_VOLTAGE) /\ VoltAccepted(ev')
           \/ IsCan1(ev', ID_AC_CURRENT) /\ CurrAccepted(ev')
        /\ {ID_AC_VOLTAGE, ID_AC_CURRENT} \subseteq accepted'
        => /\ Len(written') = 2 /\ written'[2] = "ms_v_charge_power"
           /\ m_ac_voltage' = StdMetrics'.ms_v_charge_voltage.val
           /\ m_ac_current' = StdMetrics'.ms_v_charge_current.val
     ]_vars

\* With the current 2388/164 A cached, a later voltage frame of 280.00 V has
\* republished the power.
C4_Witness ==
  /\ IsCan1(ev, ID_AC_VOLTAGE) /\ Raw16(ev) = 28000
  /\ m_ac_current = Rat(2388, 164)
  /\ written = <<"ms_v_charge_voltage", "ms_v_charge_power">>
  /\ StdMetrics.ms_v_charge_power = Metric(Rat(280 * 2388, 164 * 1000))

\* C5: a frame of the vehicle bus shorter than the bytes its rule reads is
\* discarded: no metric is written and the cached voltage and current and the
\* lock debounce byte keep their values.
C5_ShortFrameDiscarded ==
  [][ev'.kind = "can" /\ ev'.origin = 1 /\ ev'.len < RequiredLen(ev'.id)
       => /\ written' = <<>>
          /\ UNCHANGED <<StdMetrics, m_ac_voltage, m_ac_current, last_state>>
    ]_vars

\* C6: a 0x362 frame with raw r in bytes 0-1 is accepted iff
\* 15000 <= r <= 28000; an accepted frame caches r/100 V, writes it to the
\* charge-voltage metric and, the current being known, recomputes the power;
\* a rejected frame writes nothing and leaves the cache as it was.
C6_VoltageDecode ==
  [][IsCan1(ev', ID_AC_VOLTAGE) =>
       IF Raw16(ev') >= 15000 /\ Raw16(ev') <= 28000
       THEN /\ m_ac_voltage' = Rat(Raw16(ev'), 100)
            /\ StdMetrics'.ms_v_charge_voltage = Metric(Rat(Raw16(ev'), 100))
            /\ written'[1] = "ms_v_charge_voltage"
            /\ ID_AC_VOLTAGE \in accepted'
            /\ ("ms_v_charge_power" \in {written'[k] : k \in 1 .. Len(written')}
                  <=> ID_AC_CURRENT \in accepted)
       ELSE /\ written' = <<>>
            /\ UNCHANGED <<core, accepted>>
    ]_vars

\* The upper limit itself, 280.00 V, has just been accepted.
C6_Witness ==
  /\ IsCan1(ev, ID_AC_VOLTAGE) /\ Raw16(ev) = 28000
  /\ m_ac_voltage = Rat(280, 1)
  /\ StdMetrics.ms_v_charge_voltage = Metric(Rat(280, 1))

\* C7: a 0x373 frame with raw r in bytes 0-1 is accepted iff
\* 17 <= r <= 6560; an accepted frame caches r/164 A and writes it to the
\* charge-current metric; a rejected frame writes nothing and leaves the cache.
C7_CurrentDecode ==
  [][IsCan1(ev', ID_AC_CURRENT) =>
       IF Raw16(ev') >= 17 /\ Raw16(ev') <= 6560
       THEN /\ m_ac_current' = Rat(Raw16(ev'), 164)
            /\ StdMetrics'.ms_v_charge_current = Metric(Rat(Raw16(ev'), 164))
            /\ written'[1] = "ms_v_charge_current"
            /\ ID_AC_CURRENT \in accepted'
       ELSE /\ written' = <<>>
            /\ UNCHANGED <<core, accepted>>
    ]_vars

\* The upper limit itself, 40 A, has just been accepted.
C7_Witness ==
  /\ IsCan1(ev, ID_AC_CURRENT) /\ Raw16(ev) = 6560
  /\ m_ac_current = Rat(40, 1)
  /\ StdMetrics.ms_v_charge_current = Metric(Rat(40, 1))

\* C8: a 0x281 frame publishes the locked metric iff byte 1 is 0xA9 or 0xA8
\* and differs from the debounce byte; it then publishes locked = (byte is
\* 0xA9) and stores the byte.  Any other frame of that identifier publishes
\* nothing and leaves the metric and the debounce byte.  The debounce byte is
\* the last lock byte published, 0x00 before any.
C8_LockDebounce ==
  /\ [](\/ last_state = 0 /\ ~StdMetrics.ms_v_env_locked.def
        \/ last_state = 169 /\ StdMetrics.ms_v_env_locked = Metric(TRUE)
        \/ last_state = 168 /\ StdMetrics.ms_v_env_locked = Metric(FALSE))
  /\ [][IsCan1(ev', ID_LOCK) =>
          IF ev'.data[2] \in {169, 168} /\ ev'.data[2] # last_state
          THEN /\ written' = <<"ms_v_env_locked">>
               /\ StdMetrics'.ms_v_env_locked = Metric(ev'.data[2] = 169)
               /\ last_state' = ev'.data[2]
          ELSE /\ written' = <<>>
               /\ UNCHANGED <<StdMetrics, last_state>>
     ]_vars

\* A repeat of the stored byte 0xA9 has just been ignored.
C8_Witness ==
  /\ IsCan1(ev, ID_LOCK) /\ ev.data[2] = 169 /\ last_state = 169
  /\ written = <<>>
  /\ StdMetrics.ms_v_env_locked = Metric(TRUE)

\* C9: an SOH reply with raw r is rejected when r = 0xFFFF, r = 0x1800,
\* r <= 5000 or r > 15000, and writes nothing then; it is accepted otherwise,
\* and the SOH metric is then r/100.
C9_SohFilter ==
  [][IsReply(ev', PID_SOH, 2) =>
       IF Raw16(ev') = 65535 \/ Raw16(ev') = 6144
            \/ Raw16(ev') <= 5000 \/ Raw16(ev') > 15000
       THEN /\ written' = <<>>
            /\ UNCHANGED <<core, accepted>>
       ELSE /\ PID_SOH \in accepted'
            /\ StdMetrics'.ms_v_bat_soh = Metric(Rat(Raw16(ev'), 100))
    ]_vars

\* The lowest accepted value, 50.01 %, has just been published.
C9_Witness ==
  /\ IsReply(ev, PID_SOH, 2) /\ Raw16(ev) = 5001
  /\ written = <<"ms_v_bat_soh", "ms_v_bat_capacity">>
  /\ StdMetrics.ms_v_bat_soh = Metric(Rat(5001, 100))

\* C10: the usable capacity is the nominal 88.5 kWh while no SOH has been
\* accepted and 88.5 * SOH metric / 100 afterwards; an accepted SOH that
\* differs from the metric writes SOH and capacity, one that equals it
\* writes nothing.
C10_UsableCapacity ==
  /\ [](IF PID_SOH \in accepted
        THEN /\ StdMetrics.ms_v_bat_soh.def
             /\ StdMetrics.ms_v_bat_capacity =
                  Metric(Rat(177 * StdMetrics.ms_v_bat_soh.val.n,
                             2 * StdMetrics.ms_v_bat_soh.val.d * 100))
        ELSE /\ ~StdMetrics.ms_v_bat_soh.def
             /\ StdMetrics.ms_v_bat_capacity = Metric(Rat(177, 2)))
  /\ [][IsReply(ev', PID_SOH, 2) /\ SohAccepted(ev') =>
          IF StdMetrics.ms_v_bat_soh = Metric(Rat(Raw16(ev'), 100))
          THEN written' = <<>> /\ UNCHANGED core
          ELSE written' = <<"ms_v_bat_soh", "ms_v_bat_capacity">>
     ]_vars

\* SOH 95.00 % was accepted before and has just arrived again: nothing is
\* written and the capacity is still 88.5 * 0.95.
C10_Witness ==
  /\ IsReply(ev, PID_SOH, 2) /\ Raw16(ev) = 9500 /\ written = <<>>
  /\ StdMetrics.ms_v_bat_soh = Metric(Rat(95, 1))
  /\ StdMetrics.ms_v_bat_capacity = Metric(Rat(177 * 95, 200))

\* C11: an HVAC reply (0xE010) with raw 458 is dropped when the readiness
\* metric is false when it is decoded and stored as 45.8 degC when it is
\* true; the readiness metric itself changes only in a READY reply (0xE004),
\* so the outcome follows the most recent READY reply.
C11_HvacBogusWhenOff ==
  /\ [][IsReply(ev', PID_HVAC, 2) /\ Raw16(ev') = 458 =>
          IF StdMetrics.ms_v_env_on = Metric(TRUE)
          THEN /\ m_hvac_temp_c' = Metric(Rat(458, 10))
               /\ written' = <<"xmt.v.hvac.temp">>
          ELSE /\ written' = <<>>
               /\ UNCHANGED <<core, accepted>>
       ]_vars
  /\ [][StdMetrics'.ms_v_env_on # StdMetrics.ms_v_env_on =>
          IsReply(ev', PID_READY, 2)]_vars

\* The vehicle is ready and the reply with raw 458 has been stored.
C11_Witness ==
  /\ IsReply(ev, PID_HVAC, 2) /\ Raw16(ev) = 458
  /\ StdMetrics.ms_v_env_on = Metric(TRUE)
  /\ m_hvac_temp_c = Metric(Rat(458, 10))
  /\ written = <<"xmt.v.hvac.temp">>

\* The 24-bit value of bytes 4-6 of a frame, as the claims state it.
Raw24(e) == e.data[5] + e.data[6] * 256 + e.data[7] * 65536

\* C12: a 0x540 frame carries raw = payload[4] + payload[5]*256 +
\* payload[6]*65536 and km = raw/10; it is accepted exactly when
\* 0 < km < 1000000; an accepted km is written only when it differs from the
\* metric's current value, and a rejected one leaves the metric (and all
\* else) as it was.
C12_OdometerDecode ==
  [][IsCan1(ev', ID_ODOMETER) =>
       LET km == Rat(Raw24(ev'), 10)
       IN IF 0 < km.n /\ km.n < 1000000 * km.d
          THEN /\ ID_ODOMETER \in accepted'
               /\ StdMetrics' =
                    [StdMetrics EXCEPT !.ms_v_pos_odometer = Metric(km)]
               /\ written' = IF StdMetrics.ms_v_pos_odometer = Metric(km)
                             THEN <<>>
                             ELSE <<"ms_v_pos_odometer">>
          ELSE /\ written' = <<>>
               /\ UNCHANGED <<core, accepted>>
    ]_vars

\* The largest accepted value, 999999.9 km, has replaced an earlier reading.
C12_Witness ==
  /\ IsCan1(ev, ID_ODOMETER) /\ Raw24(ev) = 9999999
  /\ StdMetrics.ms_v_pos_odometer = Metric(Rat(9999999, 10))
  /\ written = <<"ms_v_pos_odometer">>

\* C13 as stated: a 0x540 frame with bytes 4-6 = 0x90, 0xf0, 0x02 decodes
\* to raw 193680 and publishes an odometer of 19368.0 km.
C13_ObservedFrameAsStated ==
  [][IsCan1(ev', ID_ODOMETER)
       /\ <<ev'.data[5], ev'.data[6], ev'.data[7]>> = <<144, 240, 2>> =>
       /\ OdometerRaw(ev'.data) = 193680
       /\ StdMetrics'.ms_v_pos_odometer = Metric(Rat(19368, 1))
    ]_vars

\* C13 amended: a 0x540 frame with bytes 4-6 = 0x90, 0xf0, 0x02 decodes to
\* raw 192656 (0x02f090) and leaves the odometer at 19265.6 km, written
\* unless the metric already held that value.
C13_ObservedFrame ==
  [][IsCan1(ev', ID_ODOMETER)
       /\ <<ev'.data[5], ev'.data[6], ev'.data[7]>> = <<144, 240, 2>> =>
       /\ OdometerRaw(ev'.data) = 192656
       /\ StdMetrics'.ms_v_pos_odometer = Metric(Rat(192656, 10))
       /\ (written' = <<"ms_v_pos_odometer">>
            \/ StdMetrics.ms_v_pos_odometer = Metric(Rat(192656, 10)))
    ]_vars

\* The observed frame has just been published for the first time.
C13_Witness ==
  /\ IsCan1(ev, ID_ODOMETER)
  /\ <<ev.data[5], ev.data[6], ev.data[7]>> = <<144, 240, 2>>
  /\ StdMetrics.ms_v_pos_odometer = Metric(Rat(192656, 10))
  /\ written = <<"ms_v_pos_odometer">>

\* C14: while the poll state is OFF, READY (0xE004) is the only pid of the
\* list with a period other than zero, so no request for VIN, SOC, SOH,
\* plug or the temperatures is sent; READY has a period other than zero in
\* every poll state.
C14_OnlyReadyWhileOff ==
  /\ [][ev'.kind = "request" /\ m_poll_state = 0 => ev'.id = PID_READY]_vars
  /\ [](m_poll_state = 0 =>
         {pid \in PollPids : PollTime(pid)[1] # 0} = {PID_READY})
  /\ [](\A s \in 0 .. 2 : PollTime(PID_READY)[s + 1] # 0)
  /\ [](ENABLED PollerSend(PID_READY))

\* READY is requested in the OFF state the vehicle has returned to after SOC
\* was requested and answered in the ON state.
C14_Witness ==
  /\ ev.kind = "request" /\ ev.id = PID_READY
  /\ m_poll_state = 0
  /\ StdMetrics.ms_v_env_on = Metric(FALSE)
  /\ StdMetrics.ms_v_bat_soc.def

\* A frame or reply whose decoded value fails its signal's validity
\* predicate, given the readiness before it is handled.
Rejected(e, env_on) ==
  \/ IsCan1(e, ID_AC_VOLTAGE) /\ ~VoltAccepted(e)
  \/ IsCan1(e, ID_AC_CURRENT) /\ ~CurrAccepted(e)
  \/ IsCan1(e, ID_ODOMETER) /\ ~(0 < Raw24(e) /\ Raw24(e) < 10000000)
  \/ IsReply(e, PID_SOC, 1) /\ ~(0 < e.data[1] /\ e.data[1] <= 100)
  \/ IsReply(e, PID_SOH, 2) /\ ~SohAccepted(e)
  \/ IsReply(e, PID_HVAC, 2)
       /\ (Raw16(e) \in {512, 65535} \/ Raw16(e) > 1250
           \/ (Raw16(e) = 458 /\ ~env_on))
  \/ IsReply(e, PID_AMBIENT, 2)
       /\ (Raw16(e) \in {512, 65535} \/ Raw16(e) > 800
           \/ (Raw16(e) = 75 /\ ~env_on))

\* C15: a frame or reply whose decoded value is rejected by its validity
\* predicate (AC voltage, AC current, odometer, SOC, SOH, cabin temperature,
\* ambient temperature) changes nothing: every metric, the cached AC voltage
\* and current, the lock debounce byte and the poll state are as before.
C15_RejectedChangesNothing ==
  [][Rejected(ev', StdMetrics.ms_v_env_on = Metric(TRUE)) =>
       /\ written' = <<>>
       /\ pollset' = <<>>
       /\ UNCHANGED <<core, accepted>>
    ]_vars

\* With every signal published, the lock debounce byte set and the vehicle
\* switched off again, the ambient default 7.5 degC has just been rejected.
C15_Witness ==
  /\ IsReply(ev, PID_AMBIENT, 2) /\ Raw16(ev) = 75
  /\ StdMetrics.ms_v_env_on = Metric(FALSE)
  /\ StdMetrics.ms_v_env_temp = Metric(Rat(75, 10))
  /\ written = <<>>
  /\ last_state = LOCKED_BYTE
  /\ m_ac_voltage # Zero /\ m_ac_current # Zero
  /\ StdMetrics.ms_v_pos_odometer.def /\ StdMetrics.ms_v_bat_soc.def
  /\ StdMetrics.ms_v_bat_soh.def

\* C16: a SOC reply (0xE002, length >= 1) with first byte b is accepted
\* exactly when 0 < b <= 100 and written only when an accepted b differs
\* from the metric's current value; so the SOC metric is always either its
\* initial value or an integer in 1..100.
C16_SocFilter ==
  /\ [][IsReply(ev', PID_SOC, 1) =>
          LET b == ev'.data[1]
          IN IF 0 < b /\ b <= 100
             THEN /\ PID_SOC \in accepted'
                  /\ StdMetrics' =
                       [StdMetrics EXCEPT !.ms_v_bat_soc = Metric(Rat(b, 1))]
                  /\ written' = IF StdMetrics.ms_v_bat_soc = Metric(Rat(b, 1))
                                THEN <<>>
                                ELSE <<"ms_v_bat_soc">>
             ELSE /\ written' = <<>>
                  /\ UNCHANGED <<core, accepted>>
       ]_vars
  /\ [](\/ StdMetrics.ms_v_bat_soc = Unset(Zero)
        \/ \E b \in 1 .. 100 : StdMetrics.ms_v_bat_soc = Metric(Rat(b, 1)))

\* SOC 1 % has replaced SOC 100 %.
C16_Witness ==
  /\ IsReply(ev, PID_SOC, 1) /\ ev.data[1] = 1
  /\ StdMetrics.ms_v_bat_soc = Metric(Rat(1, 1))
  /\ written = <<"ms_v_bat_soc">>
  /\ PID_SOC \in accepted

\* C17: every READY reply (0xE004) of length >= 2 writes the readiness
\* metric with ((raw & 0x000C) != 0), whatever the previous readiness, the
\* poll state or any filter.
C17_ReadyAlwaysWritten ==
  [][IsReply(ev', PID_READY, 2) =>
       /\ written' = <<"ms_v_env_on">>
       /\ StdMetrics' =
            [StdMetrics EXCEPT !.ms_v_env_on = Metric(BitsTwoOrThree(ev'))]
    ]_vars

\* Readiness was written again by a reply with bit 3 alone while the vehicle
\* was already on: no poll state change was asked for.
C17_Witness ==
  /\ IsReply(ev, PID_READY, 2) /\ Raw16(ev) = 8
  /\ written = <<"ms_v_env_on">>
  /\ StdMetrics.ms_v_env_on = Metric(TRUE)
  /\ pollset = <<>>
  /\ m_poll_state = 1

\* C18: a CAN frame whose origin is not the registered bus (CAN 1) causes
\* no metric write and no change to the cached AC values or the lock
\* debounce byte, whatever its identifier and payload.
C18_OtherBusIgnored ==
  [][ev'.kind = "can" /\ ev'.origin # 1 =>
       /\ written' = <<>>
       /\ pollset' = <<>>
       /\ UNCHANGED <<core, accepted>>
    ]_vars

\* A frame of another bus carrying the "locked" byte has left the vehicle
\* unlocked, with both AC values cached.
C18_Witness ==
  /\ ev.kind = "can" /\ ev.origin = 2 /\ ev.id = ID_LOCK
  /\ ev.data[2] = LOCKED_BYTE
  /\ last_state = UNLOCKED_BYTE
  /\ StdMetrics.ms_v_env_locked = Metric(FALSE)
  /\ m_ac_voltage # Zero /\ m_ac_current # Zero
  /\ written = <<>>

\* C20: in every reachable state the cached voltage is 0 or within
\* [150, 280] and the cached current is 0 or within [0.1, 40]; once other
\* than 0 neither returns to 0; a 0x362 frame never modifies the cached
\* current, a 0x373 frame never the cached voltage, and no other frame or
\* reply modifies either.
C20_CachedPairRanges ==
  /\ [](\/ m_ac_voltage = Zero
        \/ /\ 150 * m_ac_voltage.d <= m_ac_voltage.n
           /\ m_ac_voltage.n <= 280 * m_ac_voltage.d)
  /\ [](\/ m_ac_current = Zero
        \/ /\ m_ac_current.d <= 10 * m_ac_current.n
           /\ m_ac_current.n <= 40 * m_ac_current.d)
  /\ [][m_ac_voltage # Zero => m_ac_voltage' # Zero]_vars
  /\ [][m_ac_current # Zero => m_ac_current' # Zero]_vars
  /\ [][m_ac_voltage' # m_ac_voltage => IsCan1(ev', ID_AC_VOLTAGE)]_vars
  /\ [][m_ac_current' # m_ac_current => IsCan1(ev', ID_AC_CURRENT)]_vars

\* The cached 280 V and 14.56 A have been kept through a rejected voltage
\* frame.
C20_Witness ==
  /\ IsCan1(ev, ID_AC_VOLTAGE) /\ Raw16(ev) = 65535
  /\ m_ac_voltage = Rat(280, 1)
  /\ StdMetrics.ms_v_charge_voltage = Metric(Rat(280, 1))
  /\ m_ac_current = Rat(2388, 164)
  /\ written = <<>>

\* C19: when a voltage frame and a current frame are delivered from
\* concurrent sources and the steps of their handlers interleave, access to
\* the cached pair is serialized: once both handlers have finished, the
\* published power is cached voltage x cached current / 1000 of the final
\* pair (no power write is lost or computed from a stale partner value).
C19_InterleavedPairSerialized ==
  (/\ task.volt.pc = "idle" /\ task.curr.pc = "idle"
   /\ m_ac_voltage # Zero /\ m_ac_current # Zero)
  => StdMetrics.ms_v_charge_power = Metric(Kilo(m_ac_voltage, m_ac_current))

\* C21: the cached pair never expires.  Once a current sample has been
\* accepted, every later accepted voltage frame publishes the power of its
\* voltage and that same cached current, and likewise every accepted
\* current frame with the cached voltage; the cached current is the last
\* accepted current sample and the cached voltage the last accepted voltage
\* sample; and nothing else (a frame of another identifier, a poll reply, a
\* poll state change such as ON -> OFF) changes a cached value or the
\* published power.
C21_NoStalenessExpiry ==
  /\ [][IsCan1(ev', ID_AC_VOLTAGE) /\ VoltAccepted(ev') /\ m_ac_current # Zero =>
          /\ m_ac_current' = m_ac_current
          /\ StdMetrics'.ms_v_charge_power =
               Metric(Kilo(Rat(Raw16(ev'), 100), m_ac_current))
          /\ "ms_v_charge_power" \in {written'[k] : k \in 1 .. Len(written')}
       ]_vars
  /\ [][IsCan1(ev', ID_AC_CURRENT) /\ CurrAccepted(ev') /\ m_ac_voltage # Zero =>
          /\ m_ac_voltage' = m_ac_voltage
          /\ StdMetrics'.ms_v_charge_power =
               Metric(Kilo(m_ac_voltage, Rat(Raw16(ev'), 164)))
          /\ "ms_v_charge_power" \in {written'[k] : k \in 1 .. Len(written')}
       ]_vars
  /\ [][~IsCan1(ev', ID_AC_VOLTAGE) /\ ~IsCan1(ev', ID_AC_CURRENT) =>
          /\ UNCHANGED <<m_ac_voltage, m_ac_current>>
          /\ StdMetrics'.ms_v_charge_power = StdMetrics.ms_v_charge_power
       ]_vars
  /\ [](m_ac_current # Zero =>
          StdMetrics.ms_v_charge_current = Metric(m_ac_current))
  /\ [](m_ac_voltage # Zero =>
          StdMetrics.ms_v_charge_voltage = Metric(m_ac_voltage))

\* The vehicle has been switched on and off again since the current sample
\* was accepted; a voltage frame has just republished the power with it.
C21_Witness ==
  /\ IsCan1(ev, ID_AC_VOLTAGE) /\ Raw16(ev) = 28000
  /\ m_ac_current = Rat(2388, 164)
  /\ StdMetrics.ms_v_charge_power = Metric(Kilo(Rat(280, 1), Rat(2388, 164)))
  /\ written = <<"ms_v_charge_voltage", "ms_v_charge_power">>
  /\ StdMetrics.ms_v_env_on = Metric(FALSE)
  /\ m_poll_state = 0
  /\ StdMetrics.ms_v_bat_soc.def
  /\ last_state = LOCKED_BYTE

C24_DebouncePerInstance ==
  /\ [][ev'.kind = "construct" => last_state' = 0]_vars
  /\ [][IsCan1(ev', ID_LOCK)
          /\ ev'.data[2] \in {LOCKED_BYTE, UNLOCKED_BYTE}
          /\ ~StdMetrics.ms_v_env_locked.def =>
          /\ written' = <<"ms_v_env_locked">>
          /\ StdMetrics'.ms_v_env_locked = Metric(ev'.data[2] = LOCKED_BYTE)
       ]_vars

\* C23: READY is polled in every poll state, so it is requested again and
\* again; if READY replies keep being delivered and the vehicle's readiness
\* stays true, the poll state eventually becomes ON and stays ON; if it
\* stays false, the poll state eventually becomes OFF and stays OFF.  The
\* poll state cannot stay OFF with no request left that could change it.
C23_PollStateSettles ==
  /\ []<>(ev.kind = "request" /\ ev.id = PID_READY)
  /\ ([]<>IsReply(ev, PID_READY, 2)
        /\ <>[](IsReply(ev, PID_READY, 2) => BitsTwoOrThree(ev))
      => <>[](m_poll_state = 1))
  /\ ([]<>IsReply(ev, PID_READY, 2)
        /\ <>[](IsReply(ev, PID_READY, 2) => ~BitsTwoOrThree(ev))
      => <>[](m_poll_state = 0))

\* The vehicle, on earlier (SOC was answered) and off since, has been found
\* ready again by a READY reply requested in the OFF state.
C23_Witness ==
  /\ IsReply(ev, PID_READY, 2) /\ BitsTwoOrThree(ev)
  /\ pollset = <<1>>
  /\ m_poll_state = 1
  /\ StdMetrics.ms_v_bat_soc.def

\* What the CAN handler owns and what the poll handler owns, per C25.
CanSide ==
  <<StdMetrics.ms_v_env_handbrake, StdMetrics.ms_v_env_locked,
    StdMetrics.ms_v_charge_voltage, StdMetrics.ms_v_charge_current,
    StdMetrics.ms_v_charge_power, StdMetrics.ms_v_pos_odometer,
    m_ac_voltage, m_ac_current, last_state>>

PollSide ==
  <<StdMetrics.ms_v_vin, StdMetrics.ms_v_bat_soc, StdMetrics.ms_v_bat_soh,
    StdMetrics.ms_v_bat_capacity, StdMetrics.ms_v_env_on, m_poll_state,
    StdMetrics.ms_v_charge_pilot, m_hvac_temp_c, StdMetrics.ms_v_env_temp>>

=============================================================================
